---- MODULE Spec2Model ----
(***************************************************************************)
(* Board/match engine of the hexagonal tile-matching game (src/src/game.ts)*)
(* A position is a pair <<row, col>>; a grid maps every coordinate of the  *)
(* GRID_SIZE x GRID_SIZE index space to a cell colour.                     *)
(***************************************************************************)
EXTENDS Integers, Sequences, FiniteSets, TLC

VARIABLES grid, op, from, to, path, prev, lines, removed, colors, placed,
          args, answer,
          phase, selected, score, combo, moveCount, best, previewColors,
          pendingRemove, pendingLineScore, pendingLineCount,
          pathAnim, spawnAnim, removeAnim

\* the fields of the controller (src/src/main.ts) other than the grid;
\* previewColors is the field this.nextColors
controller == <<phase, selected, score, combo, moveCount, best, previewColors,
                pendingRemove, pendingLineScore, pendingLineCount>>

\* the animation slots of the renderer (src/src/renderer.ts)
animations == <<pathAnim, spawnAnim, removeAnim>>

\* arguments and results of the last engine call made on its own
engineCall == <<from, to, path, prev, lines, removed, colors, placed, args, answer>>

vars == <<grid, op, engineCall, controller, animations>>

(***************************************************************************)
(* Constants of game.ts                                                    *)
(***************************************************************************)
GRID_SIZE == 9
HEX_RADIUS == 4
VALID_CELL_COUNT == 61
NUM_COLORS == 7
JOKER_COLOR == NUM_COLORS
EMPTY_COLOR == -1
BLOCKED_COLOR == -2
MIN_MATCH == 5
PREVIEW_SIZE == 5

\* the six directions with the last one leaving the lattice's axes
HEX_DIRS_Skewed == << <<1, 0>>, <<1, -1>>, <<0, -1>>, <<-1, 0>>, <<-1, 1>>, <<1, 1>> >>

HEX_DIRS == << <<1, 0>>, <<1, -1>>, <<0, -1>>, <<-1, 0>>, <<-1, 1>>, <<0, 1>> >>

Coords == {<<row, col>> : row \in 0 .. GRID_SIZE - 1, col \in 0 .. GRID_SIZE - 1}

Abs(n) == IF n < 0 THEN -n ELSE n

Max2(a, b) == IF a >= b THEN a ELSE b

Max3(a, b, c) == Max2(Max2(a, b), c)

Min2(a, b) == IF a <= b THEN a ELSE b

(***************************************************************************)
(* Board geometry                                                          *)
(***************************************************************************)
\* isValidCell without the test on the third cube coordinate
isValidCellSquare(pos) ==
    IF pos[1] < 0 \/ pos[1] >= GRID_SIZE \/ pos[2] < 0 \/ pos[2] >= GRID_SIZE
    THEN FALSE
    ELSE LET q == pos[2] - HEX_RADIUS
             r == pos[1] - HEX_RADIUS
         IN  Max2(Abs(q), Abs(r)) <= HEX_RADIUS

isValidCell(pos) ==
    IF pos[1] < 0 \/ pos[1] >= GRID_SIZE \/ pos[2] < 0 \/ pos[2] >= GRID_SIZE
    THEN FALSE
    ELSE LET q == pos[2] - HEX_RADIUS
             r == pos[1] - HEX_RADIUS
             s == (0 - q) - r
         IN  Max3(Abs(q), Abs(r), Abs(s)) <= HEX_RADIUS

\* the inner loop over col, then the outer loop over row
RECURSIVE ScanCols(_, _)
ScanCols(row, col) ==
    IF col >= GRID_SIZE THEN << >>
    ELSE (IF isValidCell(<<row, col>>) THEN << <<row, col>> >> ELSE << >>)
         \o ScanCols(row, col + 1)

RECURSIVE ScanRows(_)
ScanRows(row) ==
    IF row >= GRID_SIZE THEN << >> ELSE ScanCols(row, 0) \o ScanRows(row + 1)

getAllValidPositions == ScanRows(0)

\* a grid whose cells outside the hexagon are EMPTY as well
createEmptyGridOpen == [pos \in Coords |-> EMPTY_COLOR]

createEmptyGrid ==
    [pos \in Coords |-> IF isValidCell(pos) THEN EMPTY_COLOR ELSE BLOCKED_COLOR]

isEmpty(g, pos) == isValidCell(pos) /\ g[pos] = EMPTY_COLOR

getEmptyCells(g) == SelectSeq(getAllValidPositions, LAMBDA pos : g[pos] = EMPTY_COLOR)

countOccupied(g) == Len(SelectSeq(getAllValidPositions, LAMBDA pos : g[pos] >= 0))

RECURSIVE NeighborsFrom(_, _)
NeighborsFrom(pos, i) ==
    IF i > Len(HEX_DIRS) THEN << >>
    ELSE LET next == <<pos[1] + HEX_DIRS[i][2], pos[2] + HEX_DIRS[i][1]>>
         IN  (IF isValidCell(next) THEN <<next>> ELSE << >>) \o NeighborsFrom(pos, i + 1)

\* neighbors with the first direction of HEX_DIRS left out
neighborsFive(pos) == NeighborsFrom(pos, 2)

\* the neighbour list of every coordinate of the index space, computed once:
\* NeighborLists[row + 1][col + 1] is the list of <<row, col>>
RECURSIVE NeighborListsOfRow(_, _)
NeighborListsOfRow(row, col) ==
    IF col >= GRID_SIZE THEN << >>
    ELSE <<NeighborsFrom(<<row, col>>, 1)>> \o NeighborListsOfRow(row, col + 1)

RECURSIVE NeighborListsFrom(_)
NeighborListsFrom(row) ==
    IF row >= GRID_SIZE THEN << >>
    ELSE <<NeighborListsOfRow(row, 0)>> \o NeighborListsFrom(row + 1)

NeighborLists == NeighborListsFrom(0)

neighbors(pos) == NeighborLists[pos[1] + 1][pos[2] + 1]

(***************************************************************************)
(* Pathfinder.  A result is a record: null = TRUE models the null return,  *)
(* otherwise seq is the returned array of positions.                       *)
(***************************************************************************)
NullPath == [null |-> TRUE, seq |-> << >>]

SomePath(s) == [null |-> FALSE, seq |-> s]

Reverse(s) == [i \in 1 .. Len(s) |-> s[Len(s) + 1 - i]]

\* parent[row][col], null where the map has no entry
ParentOf(parent, p) == IF p \in DOMAIN parent THEN <<parent[p]>> ELSE << >>

\* WalkBack without the test that stops at the source
RECURSIVE WalkBackWithSource(_, _, _, _)
WalkBackWithSource(parent, src, p, acc) ==
    IF p # << >>
    THEN WalkBackWithSource(parent, src, ParentOf(parent, p[1]), Append(acc, p[1]))
    ELSE acc

\* the reconstruction loop: p is << >> for null, <<pos>> otherwise
RECURSIVE WalkBack(_, _, _, _)
WalkBack(parent, src, p, acc) ==
    IF p # << >> /\ p[1] # src
    THEN WalkBack(parent, src, ParentOf(parent, p[1]), Append(acc, p[1]))
    ELSE acc

\* the for-loop over neighbors(cur): found = TRUE models the return inside it
RECURSIVE FindPathNeighbors(_, _, _, _, _, _, _, _)
FindPathNeighbors(g, src, dst, cur, nbrs, queue, visited, parent) ==
    IF nbrs = << >>
    THEN [found |-> FALSE, queue |-> queue, visited |-> visited, parent |-> parent]
    ELSE LET next == Head(nbrs)
             isSource == next = src
         IN  IF next \in visited
             THEN FindPathNeighbors(g, src, dst, cur, Tail(nbrs), queue, visited, parent)
             ELSE IF ~isSource /\ g[next] # EMPTY_COLOR
             THEN FindPathNeighbors(g, src, dst, cur, Tail(nbrs), queue, visited, parent)
             ELSE IF next = dst
             THEN [found |-> TRUE, queue |-> queue, visited |-> visited \cup {next},
                   parent |-> (next :> cur) @@ parent]
             ELSE FindPathNeighbors(g, src, dst, cur, Tail(nbrs), Append(queue, next),
                                    visited \cup {next}, (next :> cur) @@ parent)

\* one turn of the while-loop: queue.shift() is the read of entry i of the
\* list of all positions ever pushed; the turn is empty once the queue has
\* run out or the path has been returned
FindPathTurn(g, src, dst, st, i) ==
    IF st.found \/ i > Len(st.queue) THEN st
    ELSE FindPathNeighbors(g, src, dst, st.queue[i], neighbors(st.queue[i]),
                           st.queue, st.visited, st.parent)

\* turns lo .. hi of the while-loop, in order
RECURSIVE FindPathTurns(_, _, _, _, _, _)
FindPathTurns(g, src, dst, st, lo, hi) ==
    IF lo > hi THEN st
    ELSE IF lo = hi THEN FindPathTurn(g, src, dst, st, lo)
    ELSE LET mid == (lo + hi) \div 2
             half == FindPathTurns(g, src, dst, st, lo, mid)
         IN  IF half.found THEN half ELSE FindPathTurns(g, src, dst, half, mid + 1, hi)

\* the whole search; every position enters the queue at most once
FindPathQueue(g, src, dst, queue, visited, parent) ==
    LET st == FindPathTurns(g, src, dst,
                            [found |-> FALSE, queue |-> queue, visited |-> visited,
                             parent |-> parent],
                            1, GRID_SIZE * GRID_SIZE)
    IN  IF st.found
        THEN SomePath(Reverse(WalkBack(st.parent, src, <<dst>>, << >>)))
        ELSE NullPath

\* findPath testing from = to before the validity of the endpoints
findPathSameFirst(g, src, dst) ==
    IF src = dst THEN SomePath(<< >>)
    ELSE IF ~isValidCell(src) \/ ~isValidCell(dst) THEN NullPath
    ELSE IF ~isEmpty(g, dst) THEN NullPath
    ELSE FindPathQueue(g, src, dst, <<src>>, {src}, << >>)

\* findPath without the from = to case
findPathNoSame(g, src, dst) ==
    IF ~isValidCell(src) \/ ~isValidCell(dst) THEN NullPath
    ELSE IF ~isEmpty(g, dst) THEN NullPath
    ELSE FindPathQueue(g, src, dst, <<src>>, {src}, << >>)

\* findPath answering a coordinate that is not a cell with the empty path
findPathEmptyForInvalid(g, src, dst) ==
    IF ~isValidCell(src) \/ ~isValidCell(dst) THEN SomePath(<< >>)
    ELSE IF src = dst THEN SomePath(<< >>)
    ELSE IF ~isEmpty(g, dst) THEN NullPath
    ELSE FindPathQueue(g, src, dst, <<src>>, {src}, << >>)

findPath(g, src, dst) ==
    IF ~isValidCell(src) \/ ~isValidCell(dst) THEN NullPath
    ELSE IF src = dst THEN SomePath(<< >>)
    ELSE IF ~isEmpty(g, dst) THEN NullPath
    ELSE FindPathQueue(g, src, dst, <<src>>, {src}, << >>)

(***************************************************************************)
(* Position keys: key(pos) is the string `${row},${col}`, modelled as the  *)
(* sequence of its characters; ParseKey is split(",").map(Number).         *)
(***************************************************************************)
Digits == <<"0", "1", "2", "3", "4", "5", "6", "7", "8", "9">>

RECURSIVE NumberToString(_)
NumberToString(n) ==
    IF n < 0 THEN <<"-">> \o NumberToString(0 - n)
    ELSE IF n < 10 THEN <<Digits[n + 1]>>
    ELSE NumberToString(n \div 10) \o <<Digits[(n % 10) + 1]>>

key(pos) == NumberToString(pos[1]) \o <<",">> \o NumberToString(pos[2])

DigitValue(ch) == CHOOSE d \in 0 .. 9 : Digits[d + 1] = ch

RECURSIVE StringToNumber(_, _)
StringToNumber(str, acc) ==
    IF str = << >> THEN acc
    ELSE IF Head(str) = "-" THEN 0 - StringToNumber(Tail(str), acc)
    ELSE StringToNumber(Tail(str), 10 * acc + DigitValue(Head(str)))

\* the key read as col,row
ParseKeySwapped(posKey) ==
    LET comma == CHOOSE i \in 1 .. Len(posKey) : posKey[i] = ","
    IN  <<StringToNumber(SubSeq(posKey, comma + 1, Len(posKey)), 0),
          StringToNumber(SubSeq(posKey, 1, comma - 1), 0)>>

ParseKey(posKey) ==
    LET comma == CHOOSE i \in 1 .. Len(posKey) :
                     posKey[i] = "," /\ \A j \in 1 .. i - 1 : posKey[j] # ","
        rest == SubSeq(posKey, comma + 1, Len(posKey))
        stop == IF \E i \in 1 .. Len(rest) : rest[i] = ","
                THEN (CHOOSE i \in 1 .. Len(rest) :
                          rest[i] = "," /\ \A j \in 1 .. i - 1 : rest[j] # ",") - 1
                ELSE Len(rest)
    IN  <<StringToNumber(SubSeq(posKey, 1, comma - 1), 0),
          StringToNumber(SubSeq(rest, 1, stop), 0)>>

(***************************************************************************)
(* Match detector.  A visited grid is modelled by the set of the positions *)
(* marked true.                                                            *)
(***************************************************************************)
createVisitedGrid == {}

\* the flood fill stepping onto cells of the base colour only
RECURSIVE CollectNeighborsSameColor(_, _, _, _, _)
CollectNeighborsSameColor(g, baseColor, nbrs, queue, visited) ==
    IF nbrs = << >> THEN [queue |-> queue, visited |-> visited]
    ELSE LET next == Head(nbrs)
         IN  IF next \in visited \/ g[next] # baseColor
             THEN CollectNeighborsSameColor(g, baseColor, Tail(nbrs), queue, visited)
             ELSE CollectNeighborsSameColor(g, baseColor, Tail(nbrs), Append(queue, next),
                                            visited \cup {next})

RECURSIVE CollectNeighbors(_, _, _, _, _)
CollectNeighbors(g, baseColor, nbrs, queue, visited) ==
    IF nbrs = << >> THEN [queue |-> queue, visited |-> visited]
    ELSE LET next == Head(nbrs)
             nextColor == g[next]
         IN  IF next \in visited
             THEN CollectNeighbors(g, baseColor, Tail(nbrs), queue, visited)
             ELSE IF nextColor # baseColor /\ nextColor # JOKER_COLOR
             THEN CollectNeighbors(g, baseColor, Tail(nbrs), queue, visited)
             ELSE CollectNeighbors(g, baseColor, Tail(nbrs), Append(queue, next),
                                   visited \cup {next})

\* one turn of the while-loop: queue.shift() is the read of entry i of the
\* list of all positions ever pushed
CollectTurn(g, baseColor, st, i) ==
    IF i > Len(st.queue) THEN st
    ELSE LET current == st.queue[i]
             color == g[current]
             scan == CollectNeighbors(g, baseColor, neighbors(current), st.queue, st.visited)
         IN  [queue |-> scan.queue, visited |-> scan.visited,
              group |-> Append(st.group, current),
              baseCount |-> IF color = baseColor THEN st.baseCount + 1 ELSE st.baseCount]

\* turns lo .. hi of the while-loop, in order
RECURSIVE CollectTurns(_, _, _, _, _)
CollectTurns(g, baseColor, st, lo, hi) ==
    IF lo > hi THEN st
    ELSE IF lo = hi THEN CollectTurn(g, baseColor, st, lo)
    ELSE LET mid == (lo + hi) \div 2
             half == CollectTurns(g, baseColor, st, lo, mid)
         IN  IF mid >= Len(half.queue) THEN half
             ELSE CollectTurns(g, baseColor, half, mid + 1, hi)

\* the result also carries the visited grid, which the code updates in place
collectGroupForBase(g, start, baseColor, visited) ==
    LET st == CollectTurns(g, baseColor,
                           [queue |-> <<start>>, visited |-> visited \cup {start},
                            group |-> << >>, baseCount |-> 0],
                           1, GRID_SIZE * GRID_SIZE)
    IN  [group |-> st.group, baseCount |-> st.baseCount, visited |-> st.visited]

\* the loop over the positions of a scoring group
AddPosition(st, groupPos) ==
    LET groupKey == key(groupPos)
    IN  IF groupKey \notin st.toRemove
        THEN [toRemove |-> st.toRemove \cup {groupKey}, addedAny |-> TRUE]
        ELSE st

\* turns lo .. hi of that loop, in order (the test on half decides nothing:
\* it has the first turns evaluated before the later ones start)
RECURSIVE AddPositions(_, _, _, _)
AddPositions(group, st, lo, hi) ==
    IF lo > hi THEN st
    ELSE IF lo = hi THEN AddPosition(st, group[lo])
    ELSE LET mid == (lo + hi) \div 2
             half == AddPositions(group, st, lo, mid)
         IN  IF half.toRemove = {} THEN AddPositions(group, half, mid + 1, hi)
             ELSE AddPositions(group, half, mid + 1, hi)

AddGroup(group, toRemove, addedAny) ==
    AddPositions(group, [toRemove |-> toRemove, addedAny |-> addedAny], 1, Len(group))

\* ScanPosition with one visited grid shared by all base colours
ScanPositionSharedVisited(g, st, pos) ==
    LET color == g[pos]
    IN  IF color < 0 \/ color = JOKER_COLOR THEN st
        ELSE IF pos \in st.visitedByBase[color] THEN st
        ELSE LET found == collectGroupForBase(g, pos, color, st.visitedByBase[color])
                 marked == [c \in DOMAIN st.visitedByBase |-> found.visited]
             IN  IF Len(found.group) >= MIN_MATCH /\ found.baseCount > 0
                 THEN LET added == AddGroup(found.group, st.toRemove, FALSE)
                      IN  [visitedByBase |-> marked, toRemove |-> added.toRemove,
                           lineCount |-> IF added.addedAny THEN st.lineCount + 1
                                         ELSE st.lineCount]
                 ELSE [st EXCEPT !.visitedByBase = marked]

\* ScanPosition starting a flood fill of base colour 0 on a JOKER as well
\* and scoring a group on its length alone
ScanPositionFromJokers(g, st, pos) ==
    LET color == IF g[pos] = JOKER_COLOR THEN 0 ELSE g[pos]
    IN  IF color < 0 THEN st
        ELSE IF pos \in st.visitedByBase[color] THEN st
        ELSE LET found == collectGroupForBase(g, pos, color, st.visitedByBase[color])
                 marked == [st.visitedByBase EXCEPT ![color] = found.visited]
             IN  IF Len(found.group) >= MIN_MATCH
                 THEN LET added == AddGroup(found.group, st.toRemove, FALSE)
                      IN  [visitedByBase |-> marked, toRemove |-> added.toRemove,
                           lineCount |-> IF added.addedAny THEN st.lineCount + 1
                                         ELSE st.lineCount]
                 ELSE [st EXCEPT !.visitedByBase = marked]

\* ScanPosition reporting no group once one group has been reported
ScanPositionFirstGroup(g, st, pos) ==
    LET color == g[pos]
    IN  IF color < 0 \/ color = JOKER_COLOR THEN st
        ELSE IF pos \in st.visitedByBase[color] THEN st
        ELSE LET found == collectGroupForBase(g, pos, color, st.visitedByBase[color])
                 marked == [st.visitedByBase EXCEPT ![color] = found.visited]
             IN  IF Len(found.group) >= MIN_MATCH /\ found.baseCount > 0 /\ st.lineCount = 0
                 THEN LET added == AddGroup(found.group, st.toRemove, FALSE)
                      IN  [visitedByBase |-> marked, toRemove |-> added.toRemove,
                           lineCount |-> IF added.addedAny THEN st.lineCount + 1
                                         ELSE st.lineCount]
                 ELSE [st EXCEPT !.visitedByBase = marked]

\* one turn of the loop over getAllValidPositions()
ScanPosition(g, st, pos) ==
    LET color == g[pos]
    IN  IF color < 0 \/ color = JOKER_COLOR THEN st
        ELSE IF pos \in st.visitedByBase[color] THEN st
        ELSE LET found == collectGroupForBase(g, pos, color, st.visitedByBase[color])
                 marked == [st.visitedByBase EXCEPT ![color] = found.visited]
             IN  IF Len(found.group) >= MIN_MATCH /\ found.baseCount > 0
                 THEN LET added == AddGroup(found.group, st.toRemove, FALSE)
                      IN  [visitedByBase |-> marked, toRemove |-> added.toRemove,
                           lineCount |-> IF added.addedAny THEN st.lineCount + 1
                                         ELSE st.lineCount]
                 ELSE [st EXCEPT !.visitedByBase = marked]

\* turns lo .. hi of that loop, in order (the test on half decides nothing:
\* it has the first turns evaluated before the later ones start)
RECURSIVE ScanPositions(_, _, _, _, _)
ScanPositions(g, positions, st, lo, hi) ==
    IF lo > hi THEN st
    ELSE IF lo = hi THEN ScanPosition(g, st, positions[lo])
    ELSE LET mid == (lo + hi) \div 2
             half == ScanPositions(g, positions, st, lo, mid)
         IN  IF half.lineCount = 0 THEN ScanPositions(g, positions, half, mid + 1, hi)
             ELSE ScanPositions(g, positions, half, mid + 1, hi)

ScanGroups(g, positions, visitedByBase, toRemove, lineCount) ==
    ScanPositions(g, positions,
                  [visitedByBase |-> visitedByBase, toRemove |-> toRemove,
                   lineCount |-> lineCount],
                  1, Len(positions))

\* the score with the length bonus taken on the whole size
lineScoreLongBonus(size, lineCount, jokerRemoved) ==
    IF size > 0
    THEN size * 2 + size * 2 + (IF lineCount > 1 THEN (lineCount - 1) * 6 ELSE 0)
         + jokerRemoved * 2
    ELSE 0

\* the score with the length bonus growing below MIN_MATCH
lineScoreShortBonus(size, lineCount, jokerRemoved) ==
    LET baseScore == size * 2
        lengthBonus == Max2(0, MIN_MATCH - size) * 2
        multiLineBonus == IF lineCount > 1 THEN (lineCount - 1) * 6 ELSE 0
        jokerBonus == jokerRemoved * 2
    IN  IF size > 0 THEN baseScore + lengthBonus + multiLineBonus + jokerBonus ELSE 0

\* the score of a removal set of the given size
lineScore(size, lineCount, jokerRemoved) ==
    LET baseScore == size * 2
        lengthBonus == Max2(0, size - MIN_MATCH) * 2
        multiLineBonus == IF lineCount > 1 THEN (lineCount - 1) * 6 ELSE 0
        jokerBonus == jokerRemoved * 2
    IN  IF size > 0 THEN baseScore + lengthBonus + multiLineBonus + jokerBonus ELSE 0

checkLines(g) ==
    LET visitedByBase == [c \in 0 .. NUM_COLORS - 1 |-> createVisitedGrid]
        scan == ScanGroups(g, getAllValidPositions, visitedByBase, {}, 0)
        toRemove == scan.toRemove
        lineCount == scan.lineCount
        jokerRemoved == Cardinality({posKey \in toRemove : g[ParseKey(posKey)] = JOKER_COLOR})
    IN  [toRemove |-> toRemove,
         score |-> lineScore(Cardinality(toRemove), lineCount, jokerRemoved),
         lineCount |-> lineCount,
         jokerRemoved |-> jokerRemoved]

RECURSIVE removeMatches(_, _)
removeMatches(g, toRemove) ==
    IF toRemove = {} THEN g
    ELSE LET posKey == CHOOSE k \in toRemove : TRUE
         IN  removeMatches([g EXCEPT ![ParseKey(posKey)] = EMPTY_COLOR], toRemove \ {posKey})

(***************************************************************************)
(* Game-over oracle                                                        *)
(***************************************************************************)
isBoardFull(g) == Len(getEmptyCells(g)) = 0

\* hasAnyMove passing over the tokens of colour 0
hasAnyMoveFromPositive(g) ==
    \E i \in 1 .. Len(getAllValidPositions) :
        LET pos == getAllValidPositions[i]
        IN  /\ ~(g[pos] <= 0)
            /\ \E j \in 1 .. Len(neighbors(pos)) : g[neighbors(pos)[j]] = EMPTY_COLOR

\* hasAnyMove passing over the JOKER tokens
hasAnyMoveOfColours(g) ==
    \E i \in 1 .. Len(getAllValidPositions) :
        LET pos == getAllValidPositions[i]
        IN  /\ ~(g[pos] < 0 \/ g[pos] = JOKER_COLOR)
            /\ \E j \in 1 .. Len(neighbors(pos)) : g[neighbors(pos)[j]] = EMPTY_COLOR

hasAnyMove(g) ==
    \E i \in 1 .. Len(getAllValidPositions) :
        LET pos == getAllValidPositions[i]
        IN  /\ ~(g[pos] < 0)
            /\ \E j \in 1 .. Len(neighbors(pos)) : g[neighbors(pos)[j]] = EMPTY_COLOR

(***************************************************************************)
(* Spawn controller.  Math.random() is an input: the value k / RandSteps   *)
(* for some k in 0 .. RandSteps - 1, one value per placed token.           *)
(***************************************************************************)
RandSteps == 3

RandomValues == 0 .. RandSteps - 1

\* Math.floor(Math.random() * n)
RandomIndex(k, n) == (k * n) \div RandSteps

\* the list left as it is, the chosen cell not taken out
SpliceNothing(s, idx) == s

\* empty.splice(idx, 1), idx counted from 0
Splice(s, idx) == SubSeq(s, 1, idx) \o SubSeq(s, idx + 2, Len(s))

\* the loop giving up while one empty cell is still left
RECURSIVE SpawnLoopStopEarly(_, _, _, _, _, _)
SpawnLoopStopEarly(g, nextColors, randoms, i, empty, placedSoFar) ==
    IF i < Len(nextColors) /\ Len(empty) > 1
    THEN LET idx == RandomIndex(randoms[i + 1], Len(empty))
             pos == empty[idx + 1]
         IN  SpawnLoopStopEarly([g EXCEPT ![pos] = nextColors[i + 1]], nextColors, randoms,
                                i + 1, Splice(empty, idx), Append(placedSoFar, pos))
    ELSE [grid |-> g, placed |-> placedSoFar]

RECURSIVE SpawnLoop(_, _, _, _, _, _)
SpawnLoop(g, nextColors, randoms, i, empty, placedSoFar) ==
    IF i < Len(nextColors) /\ Len(empty) > 0
    THEN LET idx == RandomIndex(randoms[i + 1], Len(empty))
             pos == empty[idx + 1]
         IN  SpawnLoop([g EXCEPT ![pos] = nextColors[i + 1]], nextColors, randoms, i + 1,
                       Splice(empty, idx), Append(placedSoFar, pos))
    ELSE [grid |-> g, placed |-> placedSoFar]

spawnCells(g, nextColors, randoms) ==
    SpawnLoop(g, nextColors, randoms, 0, getEmptyCells(g), << >>)

(***************************************************************************)
(* Input grids.  TokenAt fixes the colour of a token by its position, so   *)
(* that a family of boards is described by which cells are occupied.       *)
(***************************************************************************)
ValidCells == {pos \in Coords : isValidCell(pos)}

TokenAt(pos) == (3 * pos[1] + pos[2]) % (NUM_COLORS + 1)

\* Pathfinder inputs: up to MaxWall tokens in the two top rows of the hexagon,
\* the rest of the board either empty (open) or fully occupied (closed).
MaxWall == 4

PathArea == {pos \in ValidCells : pos[1] <= 1}

\* the board with tokens on the cells of walls, no token on the other cells
\* of area, and outside area either no token (open) or tokens everywhere
AreaGrid(area, walls, closed) ==
    [pos \in Coords |->
        IF ~isValidCell(pos) THEN BLOCKED_COLOR
        ELSE IF pos \in walls THEN TokenAt(pos)
        ELSE IF pos \in area THEN EMPTY_COLOR
        ELSE IF closed THEN TokenAt(pos)
        ELSE EMPTY_COLOR]

PathGrid(walls, closed) == AreaGrid(PathArea, walls, closed)

\* sources and destinations, with coordinates outside the hexagon and
\* outside the index range
PathFrom == {<<0, 4>>, <<0, 6>>, <<1, 8>>, <<2, 5>>, <<0, 0>>, <<-1, 4>>}

PathTo == PathArea \cup {<<2, 4>>, <<2, 5>>, <<0, 0>>, <<0, 3>>, <<-1, 4>>, <<4, 9>>}

\* Match detector inputs: every assignment of EMPTY, a colour below
\* NumLineColors or JOKER to five clustered cells in the middle of the
\* board, on one of the backgrounds: nothing else ("none"); a far run of six
\* cells of colour 0 ("run"); short arms of colour 0, of colour 1 and a
\* JOKER touching the cluster ("arms").
NumLineColors == 2

LineArea == {<<4, 4>>, <<4, 5>>, <<3, 5>>, <<3, 4>>, <<4, 3>>}

LineValues == {EMPTY_COLOR, JOKER_COLOR} \cup (0 .. NumLineColors - 1)

BackgroundNames == {"none", "run", "arms"}

FarRun == {<<7, 0>>, <<7, 1>>, <<7, 2>>, <<7, 3>>, <<7, 4>>, <<7, 5>>}

Background(name, pos) ==
    CASE name = "run" /\ pos \in FarRun -> 0
      [] name = "arms" /\ pos \in {<<2, 5>>, <<1, 5>>} -> 0
      [] name = "arms" /\ pos \in {<<5, 2>>, <<6, 2>>} -> 1
      [] name = "arms" /\ pos = <<4, 6>> -> JOKER_COLOR
      [] OTHER -> EMPTY_COLOR

LineGrid(name, fill) ==
    fill @@ [pos \in Coords |->
                IF ~isValidCell(pos) THEN BLOCKED_COLOR ELSE Background(name, pos)]

\* Spawn inputs: boards whose only empty cells are among the four cells of
\* SpawnArea, and boards whose only tokens are there; colour lists of up to
\* MaxSpawn colours drawn from SpawnColors.
MaxSpawn == 3

SpawnArea == {<<0, 4>>, <<4, 4>>, <<4, 8>>, <<8, 0>>}

SpawnColors == {0, JOKER_COLOR}

ColorLists == UNION {[1 .. n -> SpawnColors] : n \in 0 .. MaxSpawn}

\* cells whose keys may be passed to removeMatches besides a removal set
ExtraRemove == {<<4, 4>>, <<0, 4>>}

NoLines == [toRemove |-> {}, score |-> 0, lineCount |-> 0, jokerRemoved |-> 0]

NoPos == <<-1, -1>>

\* pendingRemove = null
NoPending == [null |-> TRUE, keys |-> {}]

\* the controller and the renderer as they are when an engine function is
\* exercised on its own: the field initialisers of main.ts and renderer.ts
ControllerAtRest ==
    /\ phase = "SELECT"
    /\ selected = NoPos
    /\ score = 0
    /\ combo = 0
    /\ best = 0
    /\ moveCount = 0
    /\ previewColors = << >>
    /\ pendingRemove = NoPending
    /\ pendingLineScore = 0
    /\ pendingLineCount = 0
    /\ pathAnim = FALSE
    /\ spawnAnim = FALSE
    /\ removeAnim = FALSE

(***************************************************************************)
(* Pathfinder specification: one findPath call on an input grid            *)
(***************************************************************************)
InitPath ==
    /\ \E walls \in SUBSET PathArea, closed \in BOOLEAN :
          /\ Cardinality(walls) <= MaxWall
          /\ grid = PathGrid(walls, closed)
    /\ op = "init"
    /\ from = NoPos
    /\ to = NoPos
    /\ path = NullPath
    /\ prev = grid
    /\ lines = NoLines
    /\ removed = {}
    /\ colors = << >>
    /\ placed = << >>
    /\ args = << >>
    /\ answer = 0
    /\ ControllerAtRest

FindPath(src, dst) ==
    /\ op = "init"
    /\ op' = "findPath"
    /\ from' = src
    /\ to' = dst
    /\ path' = findPath(grid, src, dst)
    /\ prev' = grid
    /\ UNCHANGED <<grid, lines, removed, colors, placed>>
    /\ UNCHANGED <<controller, animations, args, answer>>

NextPath == \E src \in PathFrom, dst \in PathTo : FindPath(src, dst)

SpecPath == InitPath /\ [][NextPath]_vars

(***************************************************************************)
(* Reference notions for the pathfinder claims, independent of HEX_DIRS    *)
(* and of the search: hex distance in cube coordinates, and the hop count  *)
(* of a shortest chain of EMPTY cells (-1 when there is none).             *)
(***************************************************************************)
HexDistance(p, q) ==
    Max3(Abs(q[2] - p[2]), Abs(q[1] - p[1]), Abs((q[2] - p[2]) + (q[1] - p[1])))

Adjacent(p, q) == isValidCell(p) /\ isValidCell(q) /\ HexDistance(p, q) = 1

\* the valid cells at hex distance 1 of every coordinate of the index space,
\* computed once: AdjacentSets[row + 1][col + 1] is the set of <<row, col>>
RECURSIVE AdjacentSetsOfRow(_, _)
AdjacentSetsOfRow(row, col) ==
    IF col >= GRID_SIZE THEN << >>
    ELSE <<{q \in ValidCells : HexDistance(<<row, col>>, q) = 1}>>
         \o AdjacentSetsOfRow(row, col + 1)

RECURSIVE AdjacentSetsFrom(_)
AdjacentSetsFrom(row) ==
    IF row >= GRID_SIZE THEN << >>
    ELSE <<AdjacentSetsOfRow(row, 0)>> \o AdjacentSetsFrom(row + 1)

AdjacentSets == AdjacentSetsFrom(0)

AdjacentCells(p) == AdjacentSets[p[1] + 1][p[2] + 1]

RECURSIVE Expand(_, _, _, _, _)
Expand(g, dst, seen, frontier, hops) ==
    IF dst \in frontier THEN hops
    ELSE IF frontier = {} THEN -1
    ELSE LET reached == {q \in UNION {AdjacentCells(p) : p \in frontier} :
                            g[q] = EMPTY_COLOR /\ q \notin seen}
         IN  Expand(g, dst, seen \cup reached, reached, hops + 1)

ShortestHops(g, src, dst) == Expand(g, dst, {src}, {src}, 0)

Occupied(g, pos) == isValidCell(pos) /\ g[pos] >= 0

\* preconditions of the pathfinding claims: valid source, valid empty
\* destination, different from each other
Searching ==
    /\ op = "findPath"
    /\ isValidCell(from)
    /\ isEmpty(grid, to)
    /\ from # to

\* C1: for a reachable empty destination findPath returns a path that
\* excludes the source, ends at the destination, steps between neighbours,
\* starts next to the source, visits no position twice, runs over EMPTY
\* cells only and has the length of a shortest chain of empty cells.
PathCorrect ==
    Searching =>
        LET hops == ShortestHops(grid, from, to)
        IN  hops >= 0 =>
        /\ ~path.null
        /\ Len(path.seq) = hops
        /\ Len(path.seq) >= 1
        /\ path.seq[Len(path.seq)] = to
        /\ Adjacent(from, path.seq[1])
        /\ \A i \in 1 .. Len(path.seq) - 1 : Adjacent(path.seq[i], path.seq[i + 1])
        /\ \A i \in 1 .. Len(path.seq) : path.seq[i] # from /\ grid[path.seq[i]] = EMPTY_COLOR
        /\ \A i, j \in 1 .. Len(path.seq) : i # j => path.seq[i] # path.seq[j]

\* a returned path that has to go around tokens
PathDetourWitness ==
    /\ Searching
    /\ ~path.null
    /\ Len(path.seq) >= HexDistance(from, to) + 2
    /\ Occupied(grid, from)

\* C3 as stated: an occupied or invalid destination always gives null.
NullForBadDestination ==
    (op = "findPath" /\ (~isValidCell(to) \/ Occupied(grid, to))) => path.null

\* C3 amended: an invalid destination gives null, an occupied destination
\* other than the source gives null, and an occupied destination equal to
\* the (valid) source gives the empty sequence.
NullForBadDestinationUnlessSame ==
    op = "findPath" =>
        /\ ~isValidCell(to) => path.null
        /\ (Occupied(grid, to) /\ from # to) => path.null
        /\ (Occupied(grid, to) /\ from = to) => path = SomePath(<< >>)

\* an occupied destination right next to a valid source
OccupiedNeighbourWitness ==
    /\ op = "findPath"
    /\ Occupied(grid, to)
    /\ Adjacent(from, to)
    /\ path.null

\* C4 as stated: equal source and destination give the empty sequence,
\* whatever the coordinate.
EmptyPathWhenSame ==
    (op = "findPath" /\ from = to) => path = SomePath(<< >>)

\* C4 amended: equal source and destination give the empty sequence when
\* the coordinate is a valid cell, and null when it is not.
EmptyPathWhenSameValid ==
    (op = "findPath" /\ from = to) =>
        /\ isValidCell(from) => path = SomePath(<< >>)
        /\ ~isValidCell(from) => path = NullPath

\* source and destination are the same valid cell
SameCellWitness ==
    /\ op = "findPath"
    /\ from = to
    /\ isValidCell(from)
    /\ path = SomePath(<< >>)

\* C5: for a valid source and a valid empty destination other than the
\* source, findPath returns null exactly when no chain of EMPTY cells leads
\* from the source to the destination.
NullIffUnreachable ==
    Searching => (path.null <=> ShortestHops(grid, from, to) = -1)

\* an empty destination cut off from the source by tokens
UnreachableWitness ==
    /\ Searching
    /\ path.null
    /\ ShortestHops(grid, from, to) = -1
    /\ \E q \in AdjacentCells(to) : grid[q] = EMPTY_COLOR

(***************************************************************************)
(* Match detector specification: checkLines on an input grid, then         *)
(* removeMatches of its removal set, then checkLines again                 *)
(***************************************************************************)
InitLines ==
    /\ \E name \in BackgroundNames, fill \in [LineArea -> LineValues] :
          grid = LineGrid(name, fill)
    /\ op = "init"
    /\ from = NoPos
    /\ to = NoPos
    /\ path = NullPath
    /\ prev = grid
    /\ lines = NoLines
    /\ removed = {}
    /\ colors = << >>
    /\ placed = << >>
    /\ args = << >>
    /\ answer = 0
    /\ ControllerAtRest

\* a checkLines that clears the cells it reports
CheckLinesClearing ==
    /\ op \in {"init", "checkLines", "removeMatches"}
    /\ op' = "checkLines"
    /\ lines' = checkLines(grid)
    /\ grid' = removeMatches(grid, checkLines(grid).toRemove)
    /\ prev' = grid
    /\ UNCHANGED <<from, to, path, removed, colors, placed>>
    /\ UNCHANGED <<controller, animations, args, answer>>

CheckLines ==
    /\ op \in {"init", "checkLines", "removeMatches"}
    /\ op' = "checkLines"
    /\ lines' = checkLines(grid)
    /\ prev' = grid
    /\ UNCHANGED <<grid, from, to, path, removed, colors, placed>>
    /\ UNCHANGED <<controller, animations, args, answer>>

\* removeMatches(grid, S) after a checkLines call: S is the removal set of
\* that call, alone or together with the keys of the cells of ExtraRemove
RemoveMatches(S) ==
    /\ op = "checkLines"
    /\ removed = {}
    /\ op' = "removeMatches"
    /\ grid' = removeMatches(grid, S)
    /\ removed' = S
    /\ prev' = grid
    /\ UNCHANGED <<from, to, path, lines, colors, placed>>
    /\ UNCHANGED <<controller, animations, args, answer>>

NextLines ==
    \/ CheckLines
    \/ \E extra \in {{}, ExtraRemove} :
           RemoveMatches(lines.toRemove \cup {key(pos) : pos \in extra})

SpecLines == InitLines /\ [][NextLines]_vars

(***************************************************************************)
(* Reference notions for the match detector claims: connected components  *)
(* of the cells holding a colour c or JOKER, grown over AdjacentCells.     *)
(***************************************************************************)
RECURSIVE Grow(_, _, _, _)
Grow(g, c, comp, frontier) ==
    IF frontier = {} THEN comp
    ELSE LET reached == {q \in UNION {AdjacentCells(p) : p \in frontier} :
                            q \notin comp /\ (g[q] = c \/ g[q] = JOKER_COLOR)}
         IN  Grow(g, c, comp \cup reached, reached)

Component(g, c, p) == Grow(g, c, {p}, {p})

Scoring(g, c, comp) == Cardinality(comp) >= MIN_MATCH /\ \E q \in comp : g[q] = c

RefRemoveSet(g) ==
    {p \in ValidCells :
        /\ g[p] >= 0
        /\ \E c \in 0 .. NUM_COLORS - 1 :
               /\ g[p] = c \/ g[p] = JOKER_COLOR
               /\ Scoring(g, c, Component(g, c, p))}

JokersOf(g, cells) == {p \in cells : g[p] = JOKER_COLOR}

\* row-major scan order
Before(p, q) == p[1] < q[1] \/ (p[1] = q[1] /\ p[2] < q[2])

GroupOf(g, p) == Component(g, g[p], p)

\* the first cell, in scan order, of each scoring group
ScoringSeeds(g) ==
    {p \in ValidCells :
        /\ g[p] \in 0 .. NUM_COLORS - 1
        /\ Scoring(g, g[p], GroupOf(g, p))
        /\ \A q \in GroupOf(g, p) : g[q] = g[p] => ~Before(q, p)}

\* the scoring groups that add a position no earlier group has added
RefLineCount(g) ==
    LET seeds == ScoringSeeds(g)
    IN  Cardinality({p \in seeds :
            ~(GroupOf(g, p) \subseteq
                UNION {GroupOf(g, q) : q \in {r \in seeds : Before(r, p)}})})

ScoreOf(n, lineCount, jokers) ==
    IF n = 0 THEN 0
    ELSE 2 * n + 2 * Max2(0, n - MIN_MATCH)
         + (IF lineCount > 1 THEN 6 * (lineCount - 1) ELSE 0) + 2 * jokers

RemovedCells == {ParseKey(posKey) : posKey \in lines.toRemove}

\* C2: the removal set of checkLines is exactly the set of cells lying, for
\* some base colour c, in a connected component of the cells holding c or
\* JOKER that has at least MIN_MATCH cells and at least one cell holding c.
RemoveSetIsReference ==
    op = "checkLines" => lines.toRemove = {key(p) : p \in RefRemoveSet(grid)}

\* a removed group that is not a straight run and contains a JOKER
BentGroupWitness ==
    /\ op = "checkLines"
    /\ Cardinality(lines.toRemove) = MIN_MATCH
    /\ \E p \in RemovedCells : grid[p] = JOKER_COLOR
    /\ \E p, q, r \in RemovedCells : p[1] # q[1] /\ p[2] # q[2] /\ q[1] # r[1] /\ p[1] # r[1]

\* C6: the score is 0 for an empty removal set and otherwise
\* 2n + 2 max(0, n - MIN_MATCH) + 6 (lineCount - 1 if lineCount > 1) +
\* 2 jokerRemoved over the deduplicated removal set; a lone joker-free
\* group of 5 scores 10 with lineCount 1, and two disjoint joker-free
\* groups of 5 and 6 give lineCount 2 and score 40.
ScoreFormula ==
    op = "checkLines" =>
        LET ref == RefRemoveSet(grid)
            n == Cardinality(ref)
            jokers == Cardinality(JokersOf(grid, ref))
            seeds == ScoringSeeds(grid)
        IN  /\ lines.score = ScoreOf(n, lines.lineCount, jokers)
            /\ (n = 0) <=> (lines.score = 0)
            /\ (n = 5 /\ jokers = 0 /\ Cardinality(seeds) = 1) =>
                   (lines.score = 10 /\ lines.lineCount = 1)
            /\ (n = 11 /\ jokers = 0 /\ Cardinality(seeds) = 2
                  /\ \E p \in seeds : Cardinality(GroupOf(grid, p)) = 5) =>
                   (lines.score = 40 /\ lines.lineCount = 2)

\* two disjoint joker-free groups of 5 and 6 cells
TwoGroupsWitness ==
    /\ op = "checkLines"
    /\ Cardinality(lines.toRemove) = 11
    /\ lines.jokerRemoved = 0
    /\ lines.lineCount = 2
    /\ lines.score = 40
    /\ \E p, q \in ScoringSeeds(grid) :
           /\ Cardinality(GroupOf(grid, p)) = 5
           /\ Cardinality(GroupOf(grid, q)) = 6
           /\ GroupOf(grid, p) \cap GroupOf(grid, q) = {}

\* C7: lineCount is the number of scoring groups that added a position not
\* yet in the removal set, jokerRemoved is the number of JOKER cells of the
\* removal set, and a JOKER that belongs to two scoring groups of different
\* colours is in the removal set once and counted once.
CountersOverRemoveSet ==
    op = "checkLines" =>
        LET ref == RefRemoveSet(grid)
        IN  /\ lines.lineCount = RefLineCount(grid)
            /\ lines.jokerRemoved = Cardinality(JokersOf(grid, ref))
            /\ Cardinality(lines.toRemove) = Cardinality(ref)
            /\ \A p \in JokersOf(grid, ref) : key(p) \in lines.toRemove

\* a JOKER that is a member of two scoring groups of different colours
SharedJokerWitness ==
    /\ op = "checkLines"
    /\ lines.lineCount = 2
    /\ \E p, q \in ScoringSeeds(grid) :
           /\ grid[p] # grid[q]
           /\ \E j \in GroupOf(grid, p) \cap GroupOf(grid, q) : grid[j] = JOKER_COLOR
           /\ lines.jokerRemoved = Cardinality(GroupOf(grid, p) \cap GroupOf(grid, q))

RemovalCorrect ==
    op = "removeMatches" =>
        \A pos \in Coords :
            IF key(pos) \in removed THEN grid[pos] = EMPTY_COLOR
            ELSE grid[pos] = prev[pos]

\* a removal that empties tokens and leaves other tokens in place
RemovalWitness ==
    /\ op = "removeMatches"
    /\ \E pos \in Coords : key(pos) \in removed /\ prev[pos] >= 0 /\ grid[pos] = EMPTY_COLOR
    /\ \E pos \in Coords : key(pos) \notin removed /\ grid[pos] >= 0
    /\ removed # lines.toRemove

(***************************************************************************)
(* Spawn specification: one spawnCells call on an input grid               *)
(***************************************************************************)
InitSpawn ==
    /\ \E tokens \in SUBSET SpawnArea, closed \in BOOLEAN :
          grid = AreaGrid(SpawnArea, tokens, closed)
    /\ op = "init"
    /\ from = NoPos
    /\ to = NoPos
    /\ path = NullPath
    /\ prev = grid
    /\ lines = NoLines
    /\ removed = {}
    /\ colors = << >>
    /\ placed = << >>
    /\ args = << >>
    /\ answer = 0
    /\ ControllerAtRest

SpawnCells(nextColors, randoms) ==
    /\ op = "init"
    /\ op' = "spawnCells"
    /\ grid' = spawnCells(grid, nextColors, randoms).grid
    /\ placed' = spawnCells(grid, nextColors, randoms).placed
    /\ colors' = nextColors
    /\ prev' = grid
    /\ UNCHANGED <<from, to, path, lines, removed>>
    /\ UNCHANGED <<controller, animations, args, answer>>

NextSpawn ==
    \E nextColors \in ColorLists :
        \E randoms \in [1 .. Len(nextColors) -> RandomValues] :
            SpawnCells(nextColors, randoms)

SpecSpawn == InitSpawn /\ [][NextSpawn]_vars

\* C10: spawnCells returns at most min(colors.length, number of empty cells
\* before the call) positions, and countOccupied after the call is
\* countOccupied before the call plus the number of positions returned.
SpawnBounded ==
    op = "spawnCells" =>
        /\ Len(placed) <= Min2(Len(colors), Len(getEmptyCells(prev)))
        /\ countOccupied(grid) = countOccupied(prev) + Len(placed)

\* a call that ran out of empty cells before it ran out of colours
SpawnExhaustedWitness ==
    /\ op = "spawnCells"
    /\ Len(placed) >= 2
    /\ Len(placed) < Len(colors)
    /\ Len(placed) = Len(getEmptyCells(prev))
    /\ isBoardFull(grid)

\* the cells spawnCells returned
PlacedCells == {placed[i] : i \in 1 .. Len(placed)}

\* C11: whatever the random choices, the positions spawnCells returns are
\* pairwise distinct valid cells that were EMPTY before the call, the i-th
\* one holds colors[i] after the call, placement stops only when the colours
\* or the empty cells run out, and every cell not returned keeps its value.
SpawnPlacement ==
    op = "spawnCells" =>
        /\ \A i, j \in 1 .. Len(placed) : placed[i] = placed[j] => i = j
        /\ \A i \in 1 .. Len(placed) :
              /\ isValidCell(placed[i])
              /\ prev[placed[i]] = EMPTY_COLOR
              /\ grid[placed[i]] = colors[i]
        /\ Len(placed) = Len(colors) \/ Len(getEmptyCells(grid)) = 0
        /\ \A pos \in Coords \ PlacedCells : grid[pos] = prev[pos]

\* three tokens of two colours placed, the second on a later cell of the
\* scan order than the third, with empty cells to spare
SpawnOrderWitness ==
    /\ op = "spawnCells"
    /\ Len(placed) = 3
    /\ colors = <<JOKER_COLOR, 0, JOKER_COLOR>>
    /\ placed[2][1] > placed[3][1]
    /\ Len(getEmptyCells(grid)) > 0

(***************************************************************************)
(* Colour generation and spawn count (game.ts 90-107).  A Math.random()    *)
(* value is k / RandSteps; a probability is counted in ten-thousandths and *)
(* the occupied ratio is the fraction occupied / cells.                    *)
(***************************************************************************)
\* Math.min(0.12, 0.03 + moveCount * 0.0015), in ten-thousandths
jokerChance(moves) == Min2(1200, 300 + moves * 15)

\* the wildcard drawn as the value after JOKER_COLOR
randomColorPastJoker(moves, k1, k2) ==
    IF k1 * 10000 < jokerChance(moves) * RandSteps THEN JOKER_COLOR + 1
    ELSE (k2 * NUM_COLORS) \div RandSteps

\* k1 is the draw compared with jokerChance, k2 the draw of the colour
randomColor(moves, k1, k2) ==
    IF k1 * 10000 < jokerChance(moves) * RandSteps THEN JOKER_COLOR
    ELSE (k2 * NUM_COLORS) \div RandSteps

\* draws[i] is the pair of draws of the i-th colour
generateNextColors(count, moves, draws) ==
    [i \in 1 .. count |-> randomColor(moves, draws[i][1], draws[i][2])]

\* getSpawnCount with either test of a breakpoint being enough
getSpawnCountEither(moves, occupied, cells) ==
    IF moves < 10 \/ occupied * 100 < 58 * cells THEN 3
    ELSE IF moves < 25 \/ occupied * 100 < 82 * cells THEN 4
    ELSE 5

getSpawnCount(moves, occupied, cells) ==
    IF moves < 10 /\ occupied * 100 < 58 * cells THEN 3
    ELSE IF moves < 25 /\ occupied * 100 < 82 * cells THEN 4
    ELSE 5

(***************************************************************************)
(* Controller (src/src/main.ts) and the renderer's animation slots         *)
(* (src/src/renderer.ts).  Sound, DOM text and localStorage are left out;  *)
(* this.best is kept as the field it is.                                   *)
(***************************************************************************)
Phases == {"SELECT", "MOVE_ANIM", "REMOVE_ANIM", "SPAWN_ANIM", "GAME_OVER"}

\* array.slice(0, n)
Slice(s, n) == SubSeq(s, 1, Min2(n, Len(s)))

\* Math.floor(score * 0.2 * (combo - 1)) when combo > 1, else 0.  The scores
\* of checkLines are even integers; 0.2 is a double just above 1/5, so the
\* product is never below the exact value and its floor is the integer one.
comboBonus(points, chain) ==
    IF chain > 1 THEN (points * (chain - 1)) \div 5 ELSE 0

\* newGame(): draws5 are the draws of the preview, draws6 and randoms those
\* of the six initial tokens
NewGame(draws5, draws6, randoms) ==
    /\ grid' = spawnCells(createEmptyGrid, generateNextColors(6, 0, draws6), randoms).grid
    /\ score' = 0
    /\ combo' = 0
    /\ moveCount' = 0
    /\ selected' = NoPos
    /\ pendingRemove' = NoPending
    /\ pendingLineScore' = 0
    /\ pendingLineCount' = 0
    /\ phase' = "SELECT"
    /\ previewColors' = generateNextColors(PREVIEW_SIZE, 0, draws5)
    /\ op' = "newGame"
    /\ UNCHANGED <<best, animations, engineCall>>

\* A game is followed for the turn of one move: the move made at the move
\* count the game starts with, which is 0 after newGame and SparseMoves or
\* DenseMoves for a game picked up on a sparse or on a crowded board.  Once
\* that turn is over the player makes no further click in SELECT.
SparseMoves == 3

DenseMoves == 24

MoveStarts == {0, SparseMoves, DenseMoves}

Followed == phase # "SELECT" \/ moveCount \in MoveStarts

\* the cells the player clicks on; getCellFromPixel returns a valid cell or
\* null (NoPos)
ClickCells == {getAllValidPositions[i] : i \in 1 .. 7}

\* the draws of one call of generateNextColors, all alike: JOKER or colour 0
ColorDraws == {<<0, 0>>, <<1, 0>>}

\* the executed move leaving the token on its source cell as well
ExecuteMoveCopying(pos) ==
    /\ phase' = "MOVE_ANIM"
    /\ grid' = [grid EXCEPT ![pos] = grid[selected]]
    /\ pathAnim' = TRUE
    /\ selected' = NoPos
    /\ op' = "handleClick"
    /\ UNCHANGED <<score, combo, moveCount, best, previewColors, pendingRemove,
                   pendingLineScore, pendingLineCount, spawnAnim, removeAnim, engineCall>>

\* lines 285-301: execute the move from the selected cell to pos
ExecuteMove(pos) ==
    /\ phase' = "MOVE_ANIM"
    /\ grid' = [grid EXCEPT ![selected] = -1, ![pos] = grid[selected]]
    /\ pathAnim' = TRUE
    /\ selected' = NoPos
    /\ op' = "handleClick"
    /\ UNCHANGED <<score, combo, moveCount, best, previewColors, pendingRemove,
                   pendingLineScore, pendingLineCount, spawnAnim, removeAnim, engineCall>>

\* lines 261-264 and 270-274: select the clicked token; the renderer's
\* selectedPos is set to the same position
SelectCell(pos) ==
    /\ selected' = pos
    /\ op' = "handleClick"
    /\ UNCHANGED <<grid, phase, score, combo, moveCount, best, previewColors, pendingRemove,
                   pendingLineScore, pendingLineCount, animations, engineCall>>

\* handleClick without the test of the phase
HandleClickAnyPhase(pos) ==
    IF pos = NoPos THEN UNCHANGED vars
    ELSE IF selected = NoPos
         THEN IF grid[pos] >= 0 THEN SelectCell(pos) ELSE UNCHANGED vars
         ELSE IF grid[pos] >= 0 THEN SelectCell(pos)
              ELSE IF findPath(grid, selected, pos).null
                      \/ Len(findPath(grid, selected, pos).seq) = 0
                   THEN UNCHANGED vars
                   ELSE ExecuteMove(pos)

\* handleClick moving the selected token to any empty cell clicked
HandleClickNoPath(pos) ==
    IF phase # "SELECT" \/ pos = NoPos THEN UNCHANGED vars
    ELSE IF selected = NoPos
         THEN IF grid[pos] >= 0 THEN SelectCell(pos) ELSE UNCHANGED vars
         ELSE IF grid[pos] >= 0 THEN SelectCell(pos)
              ELSE ExecuteMove(pos)

\* handleClick with getCellFromPixel returning pos
HandleClick(pos) ==
    IF phase # "SELECT" \/ pos = NoPos THEN UNCHANGED vars
    ELSE IF selected = NoPos
         THEN IF grid[pos] >= 0 THEN SelectCell(pos) ELSE UNCHANGED vars
         ELSE IF grid[pos] >= 0 THEN SelectCell(pos)
              ELSE IF findPath(grid, selected, pos).null
                      \/ Len(findPath(grid, selected, pos).seq) = 0
                   THEN UNCHANGED vars
                   ELSE ExecuteMove(pos)

\* gameOver()
GameOver == phase' = "GAME_OVER"

\* lines 313-325 and 366-376: a clear was found
ScoreClear(result) ==
    /\ combo' = combo + 1
    /\ score' = score + result.score + comboBonus(result.score, combo + 1)
    /\ best' = Max2(best, score + result.score + comboBonus(result.score, combo + 1))
    /\ pendingRemove' = [null |-> FALSE, keys |-> result.toRemove]
    /\ phase' = "REMOVE_ANIM"
    /\ removeAnim' = TRUE

\* spawnPhase(), called with the move count already incremented to moves
SpawnPhase(moves) ==
    \E k \in RandomValues, draw \in ColorDraws :
        LET spawnCount == getSpawnCount(moves, countOccupied(grid), VALID_CELL_COUNT)
            spawnColors == Slice(previewColors, spawnCount)
            spawned == spawnCells(grid, spawnColors, [i \in 1 .. Len(spawnColors) |-> k])
        IN  /\ grid' = spawned.grid
            /\ previewColors' = generateNextColors(PREVIEW_SIZE, moves,
                                                   [i \in 1 .. PREVIEW_SIZE |-> draw])
            /\ IF Len(spawned.placed) > 0
               THEN phase' = "SPAWN_ANIM" /\ spawnAnim' = TRUE
               ELSE GameOver /\ spawnAnim' = FALSE

\* lines 308-341: the move animation is over
FinishMove ==
    LET result == checkLines(grid)
    IN  /\ moveCount' = moveCount + 1
        /\ IF result.toRemove # {}
           THEN /\ ScoreClear(result)
                /\ pendingLineScore' = result.score + comboBonus(result.score, combo + 1)
                /\ pendingLineCount' = result.lineCount
                /\ spawnAnim' = FALSE
                /\ UNCHANGED <<grid, previewColors>>
           ELSE /\ combo' = 0
                /\ SpawnPhase(moveCount + 1)
                /\ removeAnim' = FALSE
                /\ UNCHANGED <<score, best, pendingRemove, pendingLineScore, pendingLineCount>>

\* onAnimComplete's REMOVE_ANIM branch going on to a spawn animation where
\* the player would get the next selection
FinishRemoveThenSpawn ==
    /\ grid' = IF pendingRemove.null THEN grid ELSE removeMatches(grid, pendingRemove.keys)
    /\ pendingRemove' = NoPending
    /\ pendingLineScore' = 0
    /\ pendingLineCount' = 0
    /\ IF ~hasAnyMove(grid') \/ isBoardFull(grid')
       THEN GameOver /\ spawnAnim' = FALSE
       ELSE phase' = "SPAWN_ANIM" /\ spawnAnim' = TRUE
    /\ removeAnim' = FALSE
    /\ UNCHANGED <<score, combo, moveCount, best, previewColors>>

\* onAnimComplete's REMOVE_ANIM branch ending the game after every removal
FinishRemoveAlwaysOver ==
    /\ grid' = IF pendingRemove.null THEN grid ELSE removeMatches(grid, pendingRemove.keys)
    /\ pendingRemove' = NoPending
    /\ pendingLineScore' = 0
    /\ pendingLineCount' = 0
    /\ GameOver
    /\ spawnAnim' = FALSE
    /\ removeAnim' = FALSE
    /\ UNCHANGED <<score, combo, moveCount, best, previewColors>>

\* lines 343-360: the removal animation is over
FinishRemove ==
    /\ grid' = IF pendingRemove.null THEN grid ELSE removeMatches(grid, pendingRemove.keys)
    /\ pendingRemove' = NoPending
    /\ pendingLineScore' = 0
    /\ pendingLineCount' = 0
    /\ IF ~hasAnyMove(grid') \/ isBoardFull(grid') THEN GameOver ELSE phase' = "SELECT"
    /\ spawnAnim' = FALSE
    /\ removeAnim' = FALSE
    /\ UNCHANGED <<score, combo, moveCount, best, previewColors>>

\* onAnimComplete's SPAWN_ANIM branch without the game-over test
FinishSpawnUnchecked ==
    LET result == checkLines(grid)
    IN  IF result.toRemove # {}
        THEN /\ ScoreClear(result)
             /\ spawnAnim' = FALSE
             /\ UNCHANGED <<grid, moveCount, previewColors, pendingLineScore, pendingLineCount>>
        ELSE /\ combo' = 0
             /\ phase' = "SELECT"
             /\ spawnAnim' = FALSE
             /\ removeAnim' = FALSE
             /\ UNCHANGED <<grid, score, moveCount, best, previewColors, pendingRemove,
                            pendingLineScore, pendingLineCount>>

\* lines 362-399: the spawn animation is over
FinishSpawn ==
    LET result == checkLines(grid)
    IN  IF result.toRemove # {}
        THEN /\ ScoreClear(result)
             /\ spawnAnim' = FALSE
             /\ UNCHANGED <<grid, moveCount, previewColors, pendingLineScore, pendingLineCount>>
        ELSE /\ combo' = 0
             /\ IF isBoardFull(grid) \/ ~hasAnyMove(grid) THEN GameOver ELSE phase' = "SELECT"
             /\ spawnAnim' = FALSE
             /\ removeAnim' = FALSE
             /\ UNCHANGED <<grid, score, moveCount, best, previewColors, pendingRemove,
                            pendingLineScore, pendingLineCount>>

\* onAnimComplete running the spawn branch in every phase that is neither
\* MOVE_ANIM nor REMOVE_ANIM
OnAnimCompleteAnyPhase ==
    /\ op' = "onAnimComplete"
    /\ pathAnim' = FALSE
    /\ UNCHANGED <<selected, engineCall>>
    /\ IF phase = "MOVE_ANIM" THEN FinishMove
       ELSE IF phase = "REMOVE_ANIM" THEN FinishRemove
       ELSE FinishSpawn

\* onAnimComplete(), invoked by the renderer when no animation is active
OnAnimComplete ==
    /\ op' = "onAnimComplete"
    /\ pathAnim' = FALSE
    /\ UNCHANGED <<selected, engineCall>>
    /\ IF phase = "MOVE_ANIM" THEN FinishMove
       ELSE IF phase = "REMOVE_ANIM" THEN FinishRemove
       ELSE IF phase = "SPAWN_ANIM" THEN FinishSpawn
       ELSE /\ spawnAnim' = FALSE
            /\ removeAnim' = FALSE
            /\ UNCHANGED <<grid, controller>>

AnimationNames == {"path", "spawn", "remove"}

\* updateAnimations() on a frame in which the animations of done reach the
\* end of their progress
UpdateAnimations(done) ==
    /\ done # {}
    /\ "path" \in done => pathAnim
    /\ "spawn" \in done => spawnAnim
    /\ "remove" \in done => removeAnim
    /\ IF \/ pathAnim /\ "path" \notin done
          \/ spawnAnim /\ "spawn" \notin done
          \/ removeAnim /\ "remove" \notin done
       THEN /\ pathAnim' = (pathAnim /\ "path" \notin done)
            /\ spawnAnim' = (spawnAnim /\ "spawn" \notin done)
            /\ removeAnim' = (removeAnim /\ "remove" \notin done)
            /\ op' = "updateAnimations"
            /\ UNCHANGED <<grid, controller, engineCall>>
       ELSE OnAnimComplete

(***************************************************************************)
(* Game specification.  A game starts with the constructor's newGame() or  *)
(* is picked up between two turns: on a sparse board whose tokens are an   *)
(* anchor of colour 1 in the centre and tokens of colour 0 on the click    *)
(* cells, or on a crowded board with every cell outside the click cells    *)
(* occupied.  A board picked up has no group left to clear and a move to   *)
(* make, as every board has on which a turn ended.                         *)
(***************************************************************************)
MaxHoles == 2

Anchor == <<4, 4>>

SparseGrid(holes) ==
    [pos \in Coords |->
        IF ~isValidCell(pos) THEN BLOCKED_COLOR
        ELSE IF pos = Anchor THEN 1
        ELSE IF pos \in ClickCells \ holes THEN 0
        ELSE EMPTY_COLOR]

DenseGrid(holes) == AreaGrid(ClickCells, ClickCells \ holes, TRUE)

ConstantDraws(n, draw) == [i \in 1 .. n |-> draw]

InitNewGame ==
    /\ \E draw5 \in ColorDraws, draw6 \in ColorDraws, k \in RandomValues :
          /\ grid = spawnCells(createEmptyGrid,
                               generateNextColors(6, 0, ConstantDraws(6, draw6)),
                               ConstantDraws(6, k)).grid
          /\ previewColors = generateNextColors(PREVIEW_SIZE, 0,
                                                ConstantDraws(PREVIEW_SIZE, draw5))
    /\ moveCount = 0
    /\ op = "newGame"

InitPickedUp ==
    /\ \E holes \in SUBSET ClickCells, dense \in BOOLEAN, draw \in ColorDraws :
          /\ holes # {}
          /\ Cardinality(holes) <= MaxHoles
          /\ grid = IF dense THEN DenseGrid(holes) ELSE SparseGrid(holes)
          /\ moveCount = IF dense THEN DenseMoves ELSE SparseMoves
          /\ previewColors = generateNextColors(PREVIEW_SIZE, moveCount,
                                                ConstantDraws(PREVIEW_SIZE, draw))
    /\ checkLines(grid).toRemove = {}
    /\ hasAnyMove(grid)
    /\ op = "onAnimComplete"

Init ==
    /\ InitNewGame \/ InitPickedUp
    /\ phase = "SELECT"
    /\ selected = NoPos
    /\ score = 0
    /\ combo = 0
    /\ best = 0
    /\ pendingRemove = NoPending
    /\ pendingLineScore = 0
    /\ pendingLineCount = 0
    /\ pathAnim = FALSE
    /\ spawnAnim = FALSE
    /\ removeAnim = FALSE
    /\ from = NoPos
    /\ to = NoPos
    /\ path = NullPath
    /\ prev = createEmptyGrid
    /\ lines = NoLines
    /\ removed = {}
    /\ colors = << >>
    /\ placed = << >>
    /\ args = << >>
    /\ answer = 0

Next ==
    \/ \E draw5 \in ColorDraws, draw6 \in ColorDraws, k \in RandomValues :
          NewGame(ConstantDraws(PREVIEW_SIZE, draw5), ConstantDraws(6, draw6),
                  ConstantDraws(6, k))
    \/ \E pos \in ClickCells \cup {NoPos} : Followed /\ HandleClick(pos)
    \/ \E done \in SUBSET AnimationNames : UpdateAnimations(done)

Spec == Init /\ [][Next]_vars

(***************************************************************************)
(* Properties of the game                                                  *)
(***************************************************************************)
\* C12: a BLOCKED cell never changes after grid creation: in every state of
\* a game, whatever moves, removals and spawns came before, every coordinate
\* that fails isValidCell holds BLOCKED and no valid cell holds BLOCKED.
BlockedNeverChanges ==
    \A pos \in Coords : (grid[pos] = BLOCKED_COLOR) = ~isValidCell(pos)

\* a game started by newGame in which a move was made, a clear was scored
\* and removed, and the board was handed back to the player
AfterClearWitness ==
    /\ phase = "SELECT"
    /\ op = "onAnimComplete"
    /\ moveCount = 1
    /\ score > 0
    /\ countOccupied(grid) > 0
    /\ grid[<<0, 0>>] = BLOCKED_COLOR

\* C13: in every state of a game every valid cell holds EMPTY, a colour in
\* 0 .. NUM_COLORS - 1 or JOKER, so that countOccupied and the number of
\* empty cells add up to VALID_CELL_COUNT.
CellDomain ==
    /\ \A pos \in ValidCells :
          grid[pos] \in {EMPTY_COLOR, JOKER_COLOR} \cup (0 .. NUM_COLORS - 1)
    /\ countOccupied(grid) + Len(getEmptyCells(grid)) = VALID_CELL_COUNT

\* a spawn phase has just put wildcards on a board that holds coloured
\* tokens and empty cells
SpawnedJokerWitness ==
    /\ phase = "SPAWN_ANIM"
    /\ moveCount = 1
    /\ countOccupied(grid) = 9
    /\ Cardinality({pos \in ValidCells : grid[pos] = JOKER_COLOR}) = 3
    /\ Cardinality({pos \in ValidCells : grid[pos] = 0}) = 6

\* C14: isBoardFull(grid) holds iff no valid cell is EMPTY, hasAnyMove(grid)
\* holds iff some valid cell holding a colour or JOKER has an EMPTY cell at
\* hex distance 1, and a full board has no move.
OracleCorrect ==
    /\ isBoardFull(grid) = (\A pos \in ValidCells : grid[pos] # EMPTY_COLOR)
    /\ hasAnyMove(grid) =
          (\E pos \in ValidCells :
              /\ grid[pos] \in (0 .. NUM_COLORS - 1) \cup {JOKER_COLOR}
              /\ \E next \in AdjacentCells(pos) : grid[next] = EMPTY_COLOR)
    /\ isBoardFull(grid) => ~hasAnyMove(grid)

\* a single token of colour 0 spawned on the empty board: a move exists
LoneTokenWitness ==
    /\ op = "spawnCells"
    /\ colors = <<0>>
    /\ countOccupied(prev) = 0
    /\ countOccupied(grid) = 1
    /\ hasAnyMove(grid)
    /\ ~isBoardFull(grid)

GameOverDeclared ==
    LET full == \A pos \in ValidCells : grid[pos] # EMPTY_COLOR
        movable == \E pos \in ValidCells :
                      /\ grid[pos] >= 0
                      /\ \E next \in AdjacentCells(pos) : grid[next] = EMPTY_COLOR
    IN  /\ phase = "GAME_OVER" => (full \/ ~movable) /\ (isBoardFull(grid) \/ ~hasAnyMove(grid))
        /\ phase = "SELECT" => ~full /\ movable /\ ~isBoardFull(grid) /\ hasAnyMove(grid)

\* the tokens spawned after a move filled the crowded board without a
\* clear, and the game is over
FilledBoardWitness ==
    /\ phase = "GAME_OVER"
    /\ op = "onAnimComplete"
    /\ moveCount = DenseMoves + 1
    /\ isBoardFull(grid)
    /\ checkLines(grid).toRemove = {}
    /\ score = 0

(***************************************************************************)
(* Query specification: one call of a pure query of game.ts.  The          *)
(* geometry queries are asked about a probe coordinate from, drawn from    *)
(* the index range widened by Margin on every side; the other queries take *)
(* their arguments, recorded in args.  The result is recorded in answer.   *)
(***************************************************************************)
Margin == 1

MaxMoveCount == 30

MaxCleared == 12

MaxGroups == 3

MaxJokers == 3

Probes ==
    {<<row, col>> : row \in (0 - Margin) .. (GRID_SIZE - 1 + Margin),
                    col \in (0 - Margin) .. (GRID_SIZE - 1 + Margin)}

InitQueries ==
    /\ grid = createEmptyGrid
    /\ op = "init"
    /\ from \in Probes
    /\ to = NoPos
    /\ path = NullPath
    /\ prev = grid
    /\ lines = NoLines
    /\ removed = {}
    /\ colors = << >>
    /\ placed = << >>
    /\ args = << >>
    /\ answer = 0
    /\ ControllerAtRest

IsValidCell ==
    /\ op = "init"
    /\ op' = "isValidCell"
    /\ answer' = isValidCell(from)
    /\ UNCHANGED <<grid, from, to, path, prev, lines, removed, colors, placed, args,
                   controller, animations>>

GetAllValidPositions ==
    /\ op = "init"
    /\ op' = "getAllValidPositions"
    /\ answer' = getAllValidPositions
    /\ UNCHANGED <<grid, from, to, path, prev, lines, removed, colors, placed, args,
                   controller, animations>>

\* neighbors is called on valid cells only (game.ts 156 and 269)
Neighbors ==
    /\ op = "init"
    /\ isValidCell(from)
    /\ op' = "neighbors"
    /\ answer' = neighbors(from)
    /\ UNCHANGED <<grid, from, to, path, prev, lines, removed, colors, placed, args,
                   controller, animations>>

\* getSpawnCount(moveCount, occupied / VALID_CELL_COUNT)
GetSpawnCount(moves, occupied) ==
    /\ op = "init"
    /\ op' = "getSpawnCount"
    /\ from' = NoPos
    /\ args' = <<moves, occupied>>
    /\ answer' = getSpawnCount(moves, occupied, VALID_CELL_COUNT)
    /\ UNCHANGED <<grid, to, path, prev, lines, removed, colors, placed,
                   controller, animations>>

\* the score checkLines returns for a removal set of size cells made of
\* lineCount groups with jokerRemoved jokers in it
LineScore(size, lineCount, jokerRemoved) ==
    /\ op = "init"
    /\ op' = "lineScore"
    /\ from' = NoPos
    /\ args' = <<size, lineCount, jokerRemoved>>
    /\ answer' = lineScore(size, lineCount, jokerRemoved)
    /\ UNCHANGED <<grid, to, path, prev, lines, removed, colors, placed,
                   controller, animations>>

NextQueries ==
    \/ IsValidCell
    \/ GetAllValidPositions
    \/ Neighbors
    \/ \E moves \in 0 .. MaxMoveCount, occupied \in 0 .. VALID_CELL_COUNT :
          GetSpawnCount(moves, occupied)
    \/ \E size \in 0 .. MaxCleared, lineCount \in 0 .. MaxGroups,
          jokerRemoved \in 0 .. MaxJokers :
          jokerRemoved <= size /\ LineScore(size, lineCount, jokerRemoved)

SpecQueries == InitQueries /\ [][NextQueries]_vars

\* C17: getAllValidPositions returns VALID_CELL_COUNT pairwise distinct
\* positions in row-major order, all of them valid, and a coordinate is
\* among them iff isValidCell holds of it; isValidCell(row, col) holds iff
\* 0 <= row, col < GRID_SIZE and
\* max(|col - 4|, |row - 4|, |col + row - 8|) <= HEX_RADIUS.
GeometryClosure ==
    /\ op = "getAllValidPositions" =>
          /\ Len(answer) = VALID_CELL_COUNT
          /\ VALID_CELL_COUNT = 61
          /\ \A i, j \in 1 .. Len(answer) :
                i < j => \/ answer[i][1] < answer[j][1]
                         \/ answer[i][1] = answer[j][1] /\ answer[i][2] < answer[j][2]
          /\ \A i \in 1 .. Len(answer) : isValidCell(answer[i])
          /\ (\E i \in 1 .. Len(answer) : answer[i] = from) = isValidCell(from)
    /\ op = "isValidCell" =>
          answer = (/\ 0 <= from[1] /\ from[1] < GRID_SIZE
                    /\ 0 <= from[2] /\ from[2] < GRID_SIZE
                    /\ Max3(Abs(from[2] - 4), Abs(from[1] - 4),
                            Abs(from[2] + from[1] - 8)) <= HEX_RADIUS)

\* the cell left of the top edge of the hexagon, inside the index range, is
\* not among the 61 positions returned
OutsideHexagonWitness ==
    /\ op = "getAllValidPositions"
    /\ from = <<0, 3>>
    /\ Len(answer) = 61
    /\ answer[1] = <<0, 4>>
    /\ \A i \in 1 .. Len(answer) : answer[i] # from

\* the six corner cells of the hexagon
Corners == {<<0, 4>>, <<0, 8>>, <<4, 0>>, <<4, 8>>, <<8, 0>>, <<8, 4>>}

\* C18: every q in neighbors(p) of a valid p is valid, differs from p and
\* has p in neighbors(q); p has between 3 and 6 neighbours, and 3 exactly
\* when it is a corner of the hexagon.
NeighbourSymmetry ==
    op = "neighbors" =>
        /\ \A i \in 1 .. Len(answer) :
              /\ isValidCell(answer[i])
              /\ answer[i] # from
              /\ \E j \in 1 .. Len(neighbors(answer[i])) : neighbors(answer[i])[j] = from
        /\ Len(answer) >= 3
        /\ Len(answer) <= 6
        /\ (Len(answer) = 3) = (from \in Corners)

\* the top-left corner has the three neighbours right, below-left and below
CornerNeighboursWitness ==
    /\ op = "neighbors"
    /\ from = <<0, 4>>
    /\ Len(answer) = 3
    /\ {answer[i] : i \in 1 .. 3} = {<<0, 5>>, <<1, 3>>, <<1, 4>>}

\* C19: with r = occupied / 61, getSpawnCount(m, r) is 3 if m < 10 and
\* r < 0.58, else 4 if m < 25 and r < 0.82, else 5; it is in {3, 4, 5},
\* non-decreasing in m for fixed r and non-decreasing in r for fixed m.
SpawnCountBreakpoints ==
    op = "getSpawnCount" =>
        LET m == args[1]
            occupied == args[2]
            below58 == occupied * 100 < 58 * 61
            below82 == occupied * 100 < 82 * 61
        IN  /\ answer = (IF m < 10 /\ below58 THEN 3
                         ELSE IF m < 25 /\ below82 THEN 4 ELSE 5)
            /\ answer \in {3, 4, 5}
            /\ \A later \in m .. MaxMoveCount + 1 :
                  answer <= getSpawnCount(later, occupied, VALID_CELL_COUNT)
            /\ \A more \in occupied .. VALID_CELL_COUNT :
                  answer <= getSpawnCount(m, more, VALID_CELL_COUNT)

\* the last early move on the last sparse board: one more move or one more
\* token gives 4
LastSparseWitness ==
    /\ op = "getSpawnCount"
    /\ args = <<9, 35>>
    /\ answer = 3
    /\ getSpawnCount(10, 35, VALID_CELL_COUNT) = 4
    /\ getSpawnCount(9, 36, VALID_CELL_COUNT) = 4

\* C20: of two results with the same lineCount and the same jokerRemoved
\* the one with more cells removed has the strictly larger score, and an
\* empty removal set scores 0.
ScoreMonotone ==
    op = "lineScore" =>
        /\ \A bigger \in args[1] + 1 .. MaxCleared + 1 :
              answer < lineScore(bigger, args[2], args[3])
        /\ args[1] = 0 => answer = 0

\* six cells in one group with a joker score 16, seven score 20
LongerGroupWitness ==
    /\ op = "lineScore"
    /\ args = <<6, 1, 1>>
    /\ answer = 16
    /\ lineScore(7, 1, 1) = 20

\* the JOKER cells connected to p through JOKER cells
JokerCluster(g, p) == Grow(g, JOKER_COLOR, {p}, {p})

\* C21: a flood fill started on a coloured cell counts at least one cell of
\* its base colour; a connected cluster of JOKER cells next to no coloured
\* cell has no cell in toRemove, whatever its size; a non-empty toRemove
\* has at least MIN_MATCH cells.
NoWildcardOnlyGroup ==
    op = "checkLines" =>
        /\ \A pos \in ValidCells :
              grid[pos] \in 0 .. NUM_COLORS - 1 =>
                  collectGroupForBase(grid, pos, grid[pos], createVisitedGrid).baseCount >= 1
        /\ \A pos \in ValidCells :
              (/\ grid[pos] = JOKER_COLOR
               /\ \A q \in JokerCluster(grid, pos) :
                     \A next \in AdjacentCells(q) : grid[next] \notin 0 .. NUM_COLORS - 1)
                 => key(pos) \notin lines.toRemove
        /\ lines.toRemove # {} => Cardinality(lines.toRemove) >= MIN_MATCH

\* five JOKER cells clustered away from every colour stay while the far run
\* of colour 0 is removed
JokerClusterWitness ==
    /\ op = "checkLines"
    /\ \A pos \in LineArea : grid[pos] = JOKER_COLOR
    /\ \A pos \in LineArea : key(pos) \notin lines.toRemove
    /\ lines.toRemove = {key(pos) : pos \in FarRun}

\* a coordinate outside the index range or outside the hexagon
OutsideBoard(pos) ==
    \/ pos[1] < 0 \/ pos[1] > 8 \/ pos[2] < 0 \/ pos[2] > 8
    \/ HexDistance(pos, <<4, 4>>) > HEX_RADIUS

\* C22: for from or to outside the hexagon or outside the index range,
\* isValidCell and isEmpty are false of that coordinate and findPath
\* returns null; findPath leaves every cell of the grid as it was, whatever
\* it returns.
InvalidByValue ==
    op = "findPath" =>
        /\ \A pos \in {from, to} :
              OutsideBoard(pos) => ~isValidCell(pos) /\ ~isEmpty(grid, pos)
        /\ (OutsideBoard(from) \/ OutsideBoard(to)) => path = NullPath
        /\ \A pos \in Coords : grid[pos] = prev[pos]

\* a source above the index range and an empty destination on the open
\* board: null
OutsideSourceWitness ==
    /\ op = "findPath"
    /\ from = <<-1, 4>>
    /\ to = <<2, 4>>
    /\ grid[to] = EMPTY_COLOR
    /\ path.null
    /\ grid = prev

\* C23: on the grid left by removeMatches(grid, checkLines(grid).toRemove)
\* checkLines returns an empty removal set, score 0 and lineCount 0.
RemovalFixpoint ==
    (op = "removeMatches" /\ lines = checkLines(prev) /\ removed = lines.toRemove) =>
        /\ checkLines(grid).toRemove = {}
        /\ checkLines(grid).score = 0
        /\ checkLines(grid).lineCount = 0

\* two groups sharing a JOKER were removed and tokens next to them stay
FixpointWitness ==
    /\ op = "removeMatches"
    /\ lines = checkLines(prev)
    /\ removed = lines.toRemove
    /\ lines.lineCount = 2
    /\ lines.jokerRemoved > 0
    /\ \E pos \in ValidCells :
          /\ grid[pos] >= 0
          /\ \E next \in AdjacentCells(pos) : key(next) \in removed
    /\ checkLines(grid).toRemove = {}

\* C24 as stated: in every state with phase = SELECT, the state right after
\* newGame included, checkLines(grid) returns an empty removal set.
NoPendingMatch ==
    phase = "SELECT" => checkLines(grid).toRemove = {}

\* findPath gives a path of at least one step from the token on src to some
\* empty valid cell
CanMoveFrom(g, src) ==
    \E dst \in {pos \in ValidCells : g[pos] = EMPTY_COLOR} :
        /\ ~findPath(g, src, dst).null
        /\ Len(findPath(g, src, dst).seq) >= 1

\* C25: hasAnyMove(grid) holds iff findPath returns a path of length >= 1
\* from some valid occupied cell to some valid empty cell.
OracleAgreesWithPathfinder ==
    hasAnyMove(grid) = (\E src \in {pos \in ValidCells : grid[pos] >= 0} : CanMoveFrom(grid, src))

\* one empty cell is left on the crowded board and a token next to it can
\* step into it
LastGapWitness ==
    /\ op = "spawnCells"
    /\ Len(getEmptyCells(grid)) = 1
    /\ hasAnyMove(grid)
    /\ \E dst \in SpawnArea, src \in ValidCells :
          /\ grid[dst] = EMPTY_COLOR
          /\ grid[src] >= 0
          /\ Len(findPath(grid, src, dst).seq) = 1

\* C26: a board with a token and an EMPTY valid cell has a move; hasAnyMove
\* is false only on a full board or on a board without tokens; the game is
\* over on a board that is not full only when the board holds no token.
ConnectedBoardHasMove ==
    /\ (countOccupied(grid) >= 1 /\ Len(getEmptyCells(grid)) >= 1) => hasAnyMove(grid)
    /\ ~hasAnyMove(grid) => (isBoardFull(grid) \/ countOccupied(grid) = 0)
    /\ (phase = "GAME_OVER" /\ ~isBoardFull(grid)) =>
          /\ countOccupied(grid) = 0
          /\ score > 0

\* the first move of a game joined all six tokens; their removal emptied
\* the board and the game is over
ClearedBoardWitness ==
    /\ phase = "GAME_OVER"
    /\ op = "onAnimComplete"
    /\ moveCount = 1
    /\ countOccupied(grid) = 0
    /\ Len(getEmptyCells(grid)) = VALID_CELL_COUNT
    /\ score > 0

\* C27: the spawn phase that follows a move without a clear places exactly
\* min(getSpawnCount(moveCount, occupied / 61), number of empty cells)
\* tokens, which is at least one, and starts the spawn animation: the
\* branch for an empty placed list is not taken.
SpawnPhasePlaces ==
    [][(op' = "onAnimComplete" /\ phase = "MOVE_ANIM" /\ checkLines(grid).toRemove = {}) =>
          LET spawnCount == getSpawnCount(moveCount', countOccupied(grid), VALID_CELL_COUNT)
              gaps == Len(getEmptyCells(grid))
          IN  /\ gaps >= 1
              /\ Len(previewColors) >= spawnCount
              /\ countOccupied(grid') = countOccupied(grid) + Min2(spawnCount, gaps)
              /\ \A pos \in Coords : grid[pos] # EMPTY_COLOR => grid'[pos] = grid[pos]
              /\ phase' = "SPAWN_ANIM"
              /\ spawnAnim']_vars

\* five tokens were due on the crowded board and the gaps left by the move
\* took fewer: the board is full and the spawn animation runs
FewerPlacedWitness ==
    /\ phase = "SPAWN_ANIM"
    /\ op = "onAnimComplete"
    /\ spawnAnim
    /\ moveCount = DenseMoves + 1
    /\ isBoardFull(grid)

\* the number of animation-complete notifications a phase can still take
\* before the turn is settled
NotificationsLeft(p) ==
    CASE p = "MOVE_ANIM" -> 3
      [] p = "SPAWN_ANIM" -> 2
      [] p = "REMOVE_ANIM" -> 1
      [] OTHER -> 0

\* C28: the phase changes only from SELECT to MOVE_ANIM by a click, from
\* MOVE_ANIM to REMOVE_ANIM or SPAWN_ANIM, from SPAWN_ANIM to REMOVE_ANIM,
\* SELECT or GAME_OVER and from REMOVE_ANIM to SELECT or GAME_OVER by an
\* animation-complete notification, and from any phase to SELECT by
\* newGame; every notification in an animation phase brings the phase
\* nearer to SELECT or GAME_OVER, which are reached after at most three;
\* a click changes nothing while the phase is not SELECT.
TurnSettles ==
    [][/\ phase' # phase =>
             \/ op' = "newGame" /\ phase' = "SELECT"
             \/ op' = "handleClick" /\ phase = "SELECT" /\ phase' = "MOVE_ANIM"
             \/ /\ op' = "onAnimComplete"
                /\ \/ phase = "MOVE_ANIM" /\ phase' \in {"REMOVE_ANIM", "SPAWN_ANIM"}
                   \/ phase = "SPAWN_ANIM" /\ phase' \in {"REMOVE_ANIM", "SELECT", "GAME_OVER"}
                   \/ phase = "REMOVE_ANIM" /\ phase' \in {"SELECT", "GAME_OVER"}
       /\ (op' = "onAnimComplete" /\ NotificationsLeft(phase) > 0) =>
             NotificationsLeft(phase') < NotificationsLeft(phase)
       /\ op' = "handleClick" => phase = "SELECT"]_vars

\* two notifications after a move: the tokens spawned made a group, whose
\* removal animation runs
SpawnClearWitness ==
    /\ phase = "REMOVE_ANIM"
    /\ op = "onAnimComplete"
    /\ removeAnim
    /\ pendingLineCount = 0
    /\ pendingRemove.keys # {}
    /\ combo = 1

\* C29: newGame, in whatever phase and with whatever animation running,
\* leaves a board of exactly 6 tokens, score, combo and moveCount 0, no
\* selection, no pending removal and phase SELECT; a notification arriving
\* while the phase is SELECT changes neither grid, score, combo, moveCount
\* nor phase; a frame that leaves an animation running notifies nothing;
\* moveCount changes only by newGame and, by exactly one, by the
\* notification that ends a move animation.
NewGameInterleaved ==
    [][/\ op' = "newGame" =>
             /\ countOccupied(grid') = 6
             /\ Len(getEmptyCells(grid')) = VALID_CELL_COUNT - 6
             /\ score' = 0 /\ combo' = 0 /\ moveCount' = 0
             /\ selected' = NoPos
             /\ pendingRemove' = NoPending
             /\ phase' = "SELECT"
       /\ (op' = "onAnimComplete" /\ phase = "SELECT") =>
             UNCHANGED <<grid, score, combo, moveCount, phase>>
       /\ op' = "updateAnimations" =>
             /\ pathAnim' \/ spawnAnim' \/ removeAnim'
             /\ UNCHANGED <<grid, controller>>
       /\ moveCount' # moveCount =>
             \/ op' = "newGame"
             \/ /\ op' = "onAnimComplete"
                /\ phase = "MOVE_ANIM"
                /\ phase' # "MOVE_ANIM"
                /\ moveCount' = moveCount + 1]_vars

\* a new game was started while an animation ran, and the notification of
\* that animation arrived afterwards
StaleNotificationWitness ==
    /\ op = "onAnimComplete"
    /\ phase = "SELECT"
    /\ moveCount = 0
    /\ score = 0
    /\ countOccupied(grid) = 6
    /\ ~pathAnim /\ ~spawnAnim /\ ~removeAnim
    /\ checkLines(grid).toRemove # {}

\* C30: the selected cell holds a colour or JOKER; a click changes the grid
\* or the phase only by executing a move, in SELECT, from the selected cell
\* to a different EMPTY cell to which findPath returns a path of length
\* >= 1; the move empties the source, puts the source's value on the
\* destination, changes no other cell and keeps countOccupied.
MovesConserveTokens ==
    [][/\ selected # NoPos => grid[selected] >= 0
       /\ selected' # NoPos => grid'[selected'] >= 0
       /\ (op' = "handleClick" /\ (grid' # grid \/ phase' # phase)) =>
             /\ phase = "SELECT"
             /\ phase' = "MOVE_ANIM"
             /\ selected # NoPos
             /\ \E dst \in ValidCells :
                   /\ dst # selected
                   /\ grid[dst] = EMPTY_COLOR
                   /\ ~findPath(grid, selected, dst).null
                   /\ Len(findPath(grid, selected, dst).seq) >= 1
                   /\ grid'[selected] = EMPTY_COLOR
                   /\ grid'[dst] = grid[selected]
                   /\ \A pos \in Coords \ {selected, dst} : grid'[pos] = grid[pos]
             /\ countOccupied(grid') = countOccupied(grid)]_vars

\* a move was executed on the crowded board: the token went into a gap and
\* left a gap behind
MoveExecutedWitness ==
    /\ op = "handleClick"
    /\ phase = "MOVE_ANIM"
    /\ pathAnim
    /\ selected = NoPos
    /\ moveCount = DenseMoves
    /\ Len(getEmptyCells(grid)) = 2
    /\ \E pos \in ClickCells : grid[pos] = EMPTY_COLOR

====
